---- MODULE Spec2Model ----
(***************************************************************************)
(* cachego: the LRU cache (lru.go) and the bounded TTL cache (simple.go).   *)
(* Every public method holds the instance mutex for its whole body, so     *)
(* each call is one atomic step; SpecLock splits a call into its Lock,     *)
(* body and deferred Unlock.  The LRU list is modelled at the level of     *)
(* the node pointers: heap[i] is the i-th node allocated by Set, Nil is    *)
(* the nil pointer.                                                        *)
(***************************************************************************)
EXTENDS Integers, Sequences, FiniteSets, Bags, TLC

\* ---------------------------------------------------------------- bounds
NumKeys == 3
NumValues == 2
MaxSize == 2
MaxOps == 4
MaxGets == 1
NumSimpleKeys == 2

MaxTTL == 1
MaxTime == 2
MaxSnap == 2
MaxCalls == 2

Keys == 1..NumKeys
SimpleKeys == 1..NumSimpleKeys
Values == 1..NumValues
Nil == 0
defaultSize == 100

VARIABLES
    size,      \* lru.size / simple.size
    used,      \* lru.used / simple.used
    head,      \* lru.head (node id or Nil)
    tail,      \* lru.tail (node id or Nil)
    cache,     \* lru.cache: key -> node id
    heap,      \* the nodes allocated so far, in allocation order
    panicked,  \* a nil pointer was dereferenced: the call unwound
    ret,       \* what the last call was and what it returned
    nops,      \* number of calls made so far
    hist,      \* the calls made so far (recorded by the scripted runs only)
    ttl,       \* simple.ttl, in seconds
    data,      \* simple.data: key -> value
    file,      \* simple.file: Nil, or TheFile for a Snapshot Store
    disk,      \* what the Snapshot Store holds
    watchers,  \* the destroy goroutines in flight: a bag of [key, deadline]
    born,      \* key -> the time of the last successful Set of the key
    now,       \* the clock, in seconds
    impl,      \* the type behind the Cache interface: "lru" or "simple"
    mx,        \* the instance mutex: Nil, or the goroutine holding it
    pc         \* where each goroutine of the concurrent runs is in its call

lruOnly == <<head, tail, cache, heap, panicked, hist>>

simpleOnly == <<ttl, data, file, disk, watchers, born, now>>

lockOnly == <<impl, mx, pc>>

vars == <<size, used, ret, nops, lruOnly, simpleOnly, lockOnly>>

\* ------------------------------------------------------------ map helpers
EmptyMap == [k \in {} |-> Nil]

MapPut(m, k, v) == [x \in DOMAIN m \cup {k} |-> IF x = k THEN v ELSE m[x]]

MapDelete(m, k) == [x \in DOMAIN m \ {k} |-> m[x]]

\* ------------------------------------------------------ the Snapshot Store
\* What the store holds: Absent when Load fails, Invalid for bytes that are
\* not JSON, or a JSON object, whose text is a sequence of <<key, value>>
\* members in which BadValue is a value of the wrong JSON type for V.
\* NoBytes is the nil slice; Unencodable is a value of V that json.Marshal
\* rejects (a NaN of a float64, say), which the runs with a store draw from.
Absent == [kind |-> "absent", text |-> <<>>]
Invalid == [kind |-> "invalid", text |-> <<>>]
Object(text) == [kind |-> "object", text |-> text]
NoBytes == [kind |-> "empty", text |-> <<>>]
BadValue == -1
Unencodable == -2
SimpleValues == Values \cup {Unencodable}
TheFile == 1
ZeroValue == 0

\* ------------------------------------------------------------- the struct
node(key, value) == [key |-> key, value |-> value, next |-> Nil, prev |-> Nil]

lru == [size |-> size, used |-> used, head |-> head, tail |-> tail,
        cache |-> cache, heap |-> heap, panicked |-> FALSE]

NewLRUCache(sz) == [size |-> sz, used |-> 0, head |-> Nil, tail |-> Nil,
                    cache |-> EmptyMap, heap |-> <<>>, panicked |-> FALSE]

\* ------------------------------------------------------------ list helpers
unshift(l, n) ==
    IF l.head = Nil
    THEN [l EXCEPT !.head = n, !.tail = n]
    ELSE [l EXCEPT !.heap = [@ EXCEPT ![n].next = l.head, ![l.head].prev = n],
                   !.head = n]

\* pop that removes the key of the head node from the index.
popHead(l) ==
    IF l.tail = Nil
    THEN [l EXCEPT !.panicked = TRUE]
    ELSE LET c1 == MapDelete(l.cache, l.heap[l.head].key)
             p  == l.heap[l.tail].prev
         IN  IF p = Nil
             THEN [l EXCEPT !.cache = c1, !.panicked = TRUE]
             ELSE [l EXCEPT !.cache = c1, !.heap = [@ EXCEPT ![p].next = Nil],
                            !.tail = p]

pop(l) ==
    IF l.tail = Nil
    THEN [l EXCEPT !.panicked = TRUE]
    ELSE LET c1 == MapDelete(l.cache, l.heap[l.tail].key)
             p  == l.heap[l.tail].prev
         IN  IF p = Nil
             THEN [l EXCEPT !.cache = c1, !.panicked = TRUE]
             ELSE [l EXCEPT !.cache = c1, !.heap = [@ EXCEPT ![p].next = Nil],
                            !.tail = p]

pull(l, n) ==
    LET h0 == l.heap
        h1 == IF h0[n].prev # Nil
              THEN [h0 EXCEPT ![h0[n].prev].next = h0[n].next]
              ELSE h0
        h2 == IF h1[n].next # Nil
              THEN [h1 EXCEPT ![h1[n].next].prev = h1[n].prev]
              ELSE h1
    IN  [l EXCEPT !.heap = h2]

\* ------------------------------------------------------------- the methods
\* Set on a present key that forgets to store the value.
SetExistingKeepsValue(l, key, value) ==
    unshift(l, l.cache[key])

SetExisting(l, key, value) ==
    LET n == l.cache[key]
    IN  unshift([l EXCEPT !.heap = [@ EXCEPT ![n].value = value]], n)

SetNew(l, key, value) ==
    LET n  == Len(l.heap) + 1
        l1 == [l EXCEPT !.heap = Append(@, node(key, value))]
        l2 == unshift(l1, n)
        l3 == [l2 EXCEPT !.cache = MapPut(@, key, n), !.used = @ + 1]
    IN  IF l3.used > l3.size
        THEN LET l4 == pop(l3)
             IN  IF l4.panicked THEN l4 ELSE [l4 EXCEPT !.used = @ - 1]
        ELSE l3

LruSet(l, key, value) ==
    IF key \in DOMAIN l.cache
    THEN SetExisting(l, key, value)
    ELSE SetNew(l, key, value)

LruGet(l, key) ==
    IF key \in DOMAIN l.cache
    THEN unshift(pull(l, l.cache[key]), l.cache[key])
    ELSE l

LruDelete(l, key) ==
    IF key \in DOMAIN l.cache
    THEN [pull(l, l.cache[key]) EXCEPT !.cache = MapDelete(@, key), !.used = @ - 1]
    ELSE l

LruClear(l) ==
    [l EXCEPT !.head = Nil, !.tail = Nil, !.cache = EmptyMap, !.used = 0]

\* What Get(key) returns in the state l: the value and the error.
GetResult(l, key) ==
    IF key \in DOMAIN l.cache
    THEN [val |-> l.heap[l.cache[key]].value, err |-> "nil"]
    ELSE [val |-> Nil, err |-> "notfound"]

\* ------------------------------------------------------------ the actions
Fields(l) ==
    /\ size' = l.size
    /\ used' = l.used
    /\ head' = l.head
    /\ tail' = l.tail
    /\ cache' = l.cache
    /\ heap' = l.heap
    /\ panicked' = l.panicked

Install(l) ==
    /\ Fields(l)
    /\ nops' = nops + 1
    /\ UNCHANGED <<simpleOnly, lockOnly>>

\* The record of a call: its arguments, whether the key was in the index
\* when it was made, and what it returned (a nil dereference unwinds the
\* call instead of returning).
Result(op, key, value, val, err, l) ==
    [op |-> op, key |-> key, value |-> value, hit |-> key \in DOMAIN cache,
     val |-> val, err |-> IF l.panicked THEN "panic" ELSE err]

InitLRU ==
    /\ \E sz \in 0..MaxSize :
         LET l == NewLRUCache(sz)
         IN  /\ size = l.size
             /\ used = l.used
             /\ head = l.head
             /\ tail = l.tail
             /\ cache = l.cache
             /\ heap = l.heap
             /\ panicked = l.panicked
    /\ ret = [op |-> "new", key |-> Nil, value |-> Nil, hit |-> FALSE,
              val |-> Nil, err |-> "nil"]
    /\ nops = 0
    /\ hist = <<>>
    /\ ttl = 0
    /\ data = EmptyMap
    /\ file = Nil
    /\ disk = Absent
    /\ watchers = EmptyBag
    /\ born = EmptyMap
    /\ now = 0
    /\ impl = "lru"
    /\ mx = Nil
    /\ pc = <<>>

SetCall(key, value) ==
    /\ ~panicked
    /\ nops < MaxOps
    /\ LET l == LruSet(lru, key, value)
       IN  /\ Install(l)
           /\ ret' = Result("Set", key, value, Nil, "nil", l)

GetCall(key) ==
    /\ ~panicked
    /\ nops < MaxOps
    /\ LET l == LruGet(lru, key)
           r == GetResult(lru, key)
       IN  /\ Install(l)
           /\ ret' = Result("Get", key, Nil, r.val, r.err, l)

Set(key, value) == SetCall(key, value) /\ UNCHANGED hist

Get(key) == GetCall(key) /\ UNCHANGED hist

Delete(key) ==
    /\ ~panicked
    /\ nops < MaxOps
    /\ LET l == LruDelete(lru, key)
       IN  /\ Install(l)
           /\ ret' = Result("Delete", key, Nil, Nil,
                            IF key \in DOMAIN cache THEN "nil" ELSE "notfound", l)
    /\ UNCHANGED hist

Clear ==
    /\ ~panicked
    /\ nops < MaxOps
    /\ LET l == LruClear(lru)
       IN  /\ Install(l)
           /\ ret' = Result("Clear", Nil, Nil, Nil, "nil", l)
    /\ UNCHANGED hist

NextLRU ==
    \/ \E key \in Keys, value \in Values : Set(key, value)
    \/ \E key \in Keys : Get(key)
    \/ \E key \in Keys : Delete(key)
    \/ Clear

SpecLRU == InitLRU /\ [][NextLRU]_vars

\* ------------------------------------------------- scripted runs (lru_test)
\* A run of the shape the tests use: Set calls on keys not used before,
\* with at most MaxGets Get calls among them; hist records the calls.
HistKeys(op) == {hist[i].key : i \in {j \in 1..Len(hist) : hist[j].op = op}}

ScriptSet(key, value) ==
    /\ key \notin HistKeys("Set")
    /\ SetCall(key, value)
    /\ hist' = Append(hist, [op |-> "Set", key |-> key])

ScriptGet(key) ==
    /\ Cardinality({j \in 1..Len(hist) : hist[j].op = "Get"}) < MaxGets
    /\ GetCall(key)
    /\ hist' = Append(hist, [op |-> "Get", key |-> key])

NextScript ==
    \/ \E key \in Keys, value \in Values : ScriptSet(key, value)
    \/ \E key \in Keys : ScriptGet(key)

SpecScript == InitLRU /\ [][NextScript]_vars

TypeOKLRU ==
    /\ size \in 0..MaxSize
    /\ head \in 0..Len(heap)
    /\ tail \in 0..Len(heap)
    /\ DOMAIN cache \subseteq Keys
    /\ \A k \in DOMAIN cache : cache[k] \in 1..Len(heap) /\ heap[cache[k]].key = k

\* ------------------------------- concurrent callers (TestLRUCacheConcurrency)
\* One goroutine per key calls Set(key, value) and one more per key calls
\* Get(key), all on one cache.  A call locks the mutex, runs its body, and
\* unlocks in the deferred call, which also runs when the body panics; an
\* unrecovered panic then ends the program, so no goroutine goes on.
Setters == 1..NumKeys

Getters == (NumKeys + 1)..(2 * NumKeys)

Goroutines == Setters \cup Getters

KeyOf(g) == IF g \in Setters THEN g ELSE g - NumKeys

ValueOf(key) == ((key - 1) % NumValues) + 1

InitLock ==
    /\ \E sz \in 1..MaxSize :
         LET l == NewLRUCache(sz)
         IN  /\ size = l.size
             /\ used = l.used
             /\ head = l.head
             /\ tail = l.tail
             /\ cache = l.cache
             /\ heap = l.heap
             /\ panicked = l.panicked
    /\ ret = [op |-> "new", key |-> Nil, value |-> Nil, hit |-> FALSE,
              val |-> Nil, err |-> "nil"]
    /\ nops = 0
    /\ hist = <<>>
    /\ ttl = 0
    /\ data = EmptyMap
    /\ file = Nil
    /\ disk = Absent
    /\ watchers = EmptyBag
    /\ born = EmptyMap
    /\ now = 0
    /\ impl = "lru"
    /\ mx = Nil
    /\ pc = [g \in Goroutines |-> "start"]

\* l.mx.Lock(): blocks while another goroutine holds the mutex.
Lock(g) ==
    /\ ~panicked
    /\ pc[g] = "start"
    /\ mx = Nil
    /\ mx' = g
    /\ pc' = [pc EXCEPT ![g] = "locked"]
    /\ UNCHANGED <<size, used, ret, nops, lruOnly, simpleOnly, impl>>

\* The body of Set or Get, run with the mutex held.
Body(g) ==
    /\ pc[g] = "locked"
    /\ LET key == KeyOf(g)
           l   == IF g \in Setters
                  THEN LruSet(lru, key, ValueOf(key))
                  ELSE LruGet(lru, key)
           r   == GetResult(lru, key)
       IN  /\ Fields(l)
           /\ ret' = IF g \in Setters
                     THEN Result("Set", key, ValueOf(key), Nil, "nil", l)
                     ELSE Result("Get", key, Nil, r.val, r.err, l)
           /\ pc' = [pc EXCEPT ![g] = IF l.panicked THEN "panicking"
                                                    ELSE "returning"]
    /\ nops' = nops + 1
    /\ UNCHANGED <<hist, simpleOnly, impl, mx>>

\* defer l.mx.Unlock(): the call returns, or goes on unwinding.
Unlock(g) ==
    /\ pc[g] \in {"returning", "panicking"}
    /\ mx' = Nil
    /\ pc' = [pc EXCEPT ![g] = IF pc[g] = "returning" THEN "done"
                                                       ELSE "panicked"]
    /\ UNCHANGED <<size, used, ret, nops, lruOnly, simpleOnly, impl>>

NextLock ==
    \/ \E g \in Goroutines : Lock(g)
    \/ \E g \in Goroutines : Body(g)
    \/ \E g \in Goroutines : Unlock(g)

SpecLock == InitLock /\ [][NextLock]_vars

\* ---------------------------------------------------- the bounded TTL cache
simple == [size |-> size, used |-> used, ttl |-> ttl, data |-> data, file |-> file]

Min(S) == CHOOSE x \in S : \A y \in S : x <= y

\* json.Marshal of the map: the members in increasing key order.
RECURSIVE MarshalKeys(_, _)
MarshalKeys(m, S) ==
    IF S = {}
    THEN <<>>
    ELSE <<<<Min(S), m[Min(S)]>>>> \o MarshalKeys(m, S \ {Min(S)})

\* json.Marshal(m): the object text, or no bytes and an error when a value
\* of m has no JSON encoding.
Marshal(m) ==
    IF \E k \in DOMAIN m : m[k] = Unencodable
    THEN [bytes |-> NoBytes, err |-> "unsupported"]
    ELSE [bytes |-> Object(MarshalKeys(m, DOMAIN m)), err |-> "nil"]

\* The members of the object text decoded into m, one after the other.  A
\* member whose value has the wrong type is stored with the zero value and
\* decoding goes on with the next member.
RECURSIVE DecodeMembers(_, _)
DecodeMembers(text, m) ==
    IF text = <<>>
    THEN m
    ELSE LET k == Head(text)[1]
             v == Head(text)[2]
         IN  DecodeMembers(Tail(text),
                           MapPut(m, k, IF v = BadValue THEN ZeroValue ELSE v))

\* json.Unmarshal(bytes, &m): a syntax error leaves m alone; a type error
\* is reported after the rest of the object has been decoded into m.
Unmarshal(bytes, m) ==
    IF bytes.kind # "object"
    THEN [data |-> m, err |-> "syntax"]
    ELSE [data |-> DecodeMembers(bytes.text, m),
          err  |-> IF \E i \in 1..Len(bytes.text) : bytes.text[i][2] = BadValue
                   THEN "type" ELSE "nil"]

\* NewCache(opts) when the store, if any, holds content.
NewCache(opts, content) ==
    LET s == IF opts.Size > 0 THEN opts.Size ELSE defaultSize
        c == [size |-> s, used |-> 0, ttl |-> opts.TTL, data |-> EmptyMap,
              file |-> opts.File]
    IN  IF opts.File = Nil \/ content = Absent
        THEN c
        ELSE LET u == Unmarshal(content, EmptyMap)
                 l == Cardinality(DOMAIN u.data)
             IN  IF u.err # "nil"
                 THEN [c EXCEPT !.data = u.data]
                 ELSE IF l > s
                      THEN c
                      ELSE [c EXCEPT !.data = u.data, !.used = l]

\* Set that never starts a destroy goroutine.
SimpleSetNoWatcher(c, key, value) ==
    IF c.used >= c.size
    THEN [c |-> c, err |-> "full", spawn |-> FALSE]
    ELSE [c |-> [c EXCEPT !.used = IF key \in DOMAIN c.data THEN @ ELSE @ + 1,
                          !.data = MapPut(@, key, value)],
          err |-> "nil",
          spawn |-> FALSE]

\* Set: the struct after the call, the error, and whether a destroy
\* goroutine was started.
SimpleSet(c, key, value) ==
    IF c.used >= c.size
    THEN [c |-> c, err |-> "full", spawn |-> FALSE]
    ELSE [c |-> [c EXCEPT !.used = IF key \in DOMAIN c.data THEN @ ELSE @ + 1,
                          !.data = MapPut(@, key, value)],
          err |-> "nil",
          spawn |-> c.ttl > 0]

SimpleGet(c, key) ==
    IF key \in DOMAIN c.data
    THEN [val |-> c.data[key], err |-> "nil"]
    ELSE [val |-> ZeroValue, err |-> "notfound"]

\* Delete that counts down for an absent key too.
SimpleDeleteCountsDown(c, key) ==
    IF key \notin DOMAIN c.data
    THEN [c |-> [c EXCEPT !.used = @ - 1], err |-> "notfound"]
    ELSE [c |-> [c EXCEPT !.data = MapDelete(@, key), !.used = @ - 1],
          err |-> "nil"]

SimpleDelete(c, key) ==
    IF key \notin DOMAIN c.data
    THEN [c |-> c, err |-> "notfound"]
    ELSE [c |-> [c EXCEPT !.data = MapDelete(@, key), !.used = @ - 1],
          err |-> "nil"]

\* Clear that empties the cache although Dump failed.
SimpleClearAnyway(c, dumpFails) ==
    [c |-> [c EXCEPT !.data = EmptyMap, !.used = 0],
     err |-> IF c.file # Nil /\ dumpFails THEN "dump" ELSE "nil",
     dumped |-> c.file # Nil /\ ~dumpFails]

\* Clear: the struct after the call, the error, and whether the store took
\* the bytes.
SimpleClear(c, dumpFails) ==
    IF c.file # Nil /\ dumpFails
    THEN [c |-> c, err |-> "dump", dumped |-> FALSE]
    ELSE [c |-> [c EXCEPT !.data = EmptyMap, !.used = 0],
          err |-> "nil", dumped |-> c.file # Nil]

\* setDeadline: the deadline of a watcher started now.
setDeadline(c) == now + c.ttl

Watcher(key, deadline) == [key |-> key, deadline |-> deadline]

\* The contents a store may hold when the cache is constructed.
ObjectTexts ==
    UNION {{Marshal(m).bytes : m \in [S -> {Min(Values), BadValue}]} :
           S \in SUBSET (1..MaxSnap)}

Snapshots == {Absent, Invalid} \cup ObjectTexts

InstallSimple(c) ==
    /\ size' = c.size
    /\ used' = c.used
    /\ ttl' = c.ttl
    /\ data' = c.data
    /\ file' = c.file

CallResult(op, key, value, val, err) ==
    [op |-> op, key |-> key, value |-> value, hit |-> key \in DOMAIN data,
     val |-> val, err |-> err]

\* The cache NewCache returns, for every Opts with a File among files.
InitSimple(files) ==
    /\ \E sz \in 0..MaxSize, t \in 0..MaxTTL, f \in files,
          content \in Snapshots :
         LET c == NewCache([Size |-> sz, TTL |-> t, File |-> f], content)
         IN  /\ f = Nil => content = Absent
             /\ size = c.size
             /\ used = c.used
             /\ ttl = c.ttl
             /\ data = c.data
             /\ file = c.file
             /\ disk = content
    /\ watchers = EmptyBag
    /\ born = EmptyMap
    /\ now = 0
    /\ ret = [op |-> "new", key |-> Nil, value |-> Nil, hit |-> FALSE,
              val |-> Nil, err |-> "nil"]
    /\ nops = 0
    /\ head = Nil
    /\ tail = Nil
    /\ cache = EmptyMap
    /\ heap = <<>>
    /\ panicked = FALSE
    /\ hist = <<>>
    /\ impl = "simple"
    /\ mx = Nil
    /\ pc = <<>>

CacheSet(key, value) ==
    /\ nops < MaxCalls
    /\ ttl > 0 => now + ttl <= MaxTime
    /\ LET r == SimpleSet(simple, key, value)
       IN  /\ InstallSimple(r.c)
           /\ watchers' = IF r.spawn
                          THEN watchers (+) SetToBag({Watcher(key, setDeadline(simple))})
                          ELSE watchers
           /\ born' = IF r.err = "nil" THEN MapPut(born, key, now) ELSE born
           /\ ret' = CallResult("Set", key, value, Nil, r.err)
    /\ nops' = nops + 1
    /\ UNCHANGED <<disk, now, lruOnly, lockOnly>>

CacheGet(key) ==
    /\ nops < MaxCalls
    /\ LET r == SimpleGet(simple, key)
       IN  ret' = CallResult("Get", key, Nil, r.val, r.err)
    /\ nops' = nops + 1
    /\ UNCHANGED <<size, used, simpleOnly, lruOnly, lockOnly>>

CacheDelete(key) ==
    /\ nops < MaxCalls
    /\ LET r == SimpleDelete(simple, key)
       IN  /\ InstallSimple(r.c)
           /\ ret' = CallResult("Delete", key, Nil, Nil, r.err)
    /\ born' = MapDelete(born, key)
    /\ nops' = nops + 1
    /\ UNCHANGED <<disk, watchers, now, lruOnly, lockOnly>>

\* Clear when the store's Dump fails (dumpFails) or succeeds.
ClearWith(dumpFails) ==
    /\ file = Nil => ~dumpFails
    /\ LET r == SimpleClear(simple, dumpFails)
       IN  /\ InstallSimple(r.c)
           /\ disk' = IF r.dumped THEN Marshal(data).bytes ELSE disk
           /\ born' = IF r.err = "nil" THEN EmptyMap ELSE born
           /\ ret' = CallResult("Clear", Nil, Nil, Nil, r.err)
    /\ nops' = nops + 1
    /\ UNCHANGED <<watchers, now, lruOnly, lockOnly>>

CacheClear ==
    /\ nops < MaxCalls
    /\ \E dumpFails \in BOOLEAN : ClearWith(dumpFails)

\* destroy: the watcher w wakes up at or after its deadline and calls Delete.
destroy(w) ==
    /\ BagIn(w, watchers)
    /\ now >= w.deadline
    /\ LET r == SimpleDelete(simple, w.key)
       IN  /\ InstallSimple(r.c)
           /\ ret' = CallResult("destroy", w.key, Nil, Nil, r.err)
    /\ born' = MapDelete(born, w.key)
    /\ watchers' = watchers (-) SetToBag({w})
    /\ UNCHANGED <<disk, now, nops, lruOnly, lockOnly>>

\* A second passes.
Tick ==
    /\ now < MaxTime
    /\ now' = now + 1
    /\ UNCHANGED <<size, used, ret, nops, ttl, data, file, disk, watchers, born,
                   lruOnly, lockOnly>>

AllWatchers == {Watcher(k, d) : k \in SimpleKeys, d \in 0..MaxTime}

NextTTL ==
    \/ \E key \in SimpleKeys, value \in Values : CacheSet(key, value)
    \/ \E key \in SimpleKeys : CacheGet(key)
    \/ \E key \in SimpleKeys : CacheDelete(key)
    \/ CacheClear
    \/ \E w \in AllWatchers : destroy(w)
    \/ Tick

InitTTL == InitSimple({Nil, TheFile})

SpecTTL == InitTTL /\ [][NextTTL]_vars

\* A cache without a Snapshot Store (Opts{Size, TTL}, as in TestCache).
InitNoStore == InitSimple({Nil})

\* The clock advances and every destroy goroutine whose deadline has passed
\* is eventually scheduled.
Fairness ==
    /\ WF_vars(Tick)
    /\ \A w \in AllWatchers : WF_vars(destroy(w))

SpecExpiry == InitNoStore /\ [][NextTTL]_vars /\ Fairness

\* A cache with a Snapshot Store and no TTL (Opts{Size, File}, as in
\* TestSimpleCacheFile): no destroy goroutine is ever started.
InitStore == InitSimple({TheFile}) /\ ttl = 0

NextStore ==
    \/ \E key \in SimpleKeys, value \in SimpleValues : CacheSet(key, value)
    \/ \E key \in SimpleKeys : CacheGet(key)
    \/ \E key \in SimpleKeys : CacheDelete(key)
    \/ CacheClear

SpecStore == InitStore /\ [][NextStore]_vars

\* A Cache of either implementation: NewLRUCache, or NewCache without a
\* store or with a store and no TTL; each call goes to the methods of the
\* type behind the interface.  Without a TTL nothing reads the clock.
InitAny == InitLRU \/ InitNoStore \/ InitStore

NextAny ==
    \/ impl = "lru" /\ NextLRU
    \/ impl = "simple" /\ file = Nil /\ NextTTL
    \/ impl = "simple" /\ file # Nil /\ NextStore

SpecAny == InitAny /\ [][NextAny]_vars

TypeOKTTL ==
    /\ size \in (1..MaxSize) \cup {defaultSize}
    /\ ttl \in 0..MaxTTL
    /\ DOMAIN data \subseteq SimpleKeys \cup (1..MaxSnap)
    /\ now \in 0..MaxTime

\* ------------------------------------------------------ claims on the LRU
LiveKeys == DOMAIN cache

\* The keys of the Set calls of hist, in call order.
SetKeySeq == SelectSeq(hist, LAMBDA c : c.op = "Set")

\* hist is N Set calls on distinct keys, then Get of the first key, then
\* one more Set on a new key, on a cache of capacity N >= 2.
TouchRun ==
    /\ size >= 2
    /\ Len(hist) = size + 2
    /\ \A i \in 1..size : hist[i].op = "Set"
    /\ hist[size + 1] = [op |-> "Get", key |-> hist[1].key]
    /\ hist[size + 2].op = "Set"

\* C1: after Set(k1..kN), Get(k1), Set(kN+1) on an empty cache of capacity
\* N >= 2 the evicted key is k2: every key but k2 is retrievable.
TouchRefresh ==
    TouchRun =>
        /\ ~panicked
        /\ LiveKeys = {hist[i].key : i \in 1..Len(hist)} \ {hist[2].key}

\* C2: with capacity C >= 1, after every call the number of keys in the
\* hash index is at most C.
CapacityBound ==
    (size >= 1 /\ ~panicked) => Cardinality(LiveKeys) <= size

\* hist is more than N Set calls on distinct keys and nothing else, on a
\* cache of capacity N >= 1.
FillRun ==
    /\ size >= 1
    /\ Len(hist) > size
    /\ \A i \in 1..Len(hist) : hist[i].op = "Set"

\* C3: after more than N Set calls on distinct keys and no other call, the
\* keys Get succeeds for are exactly the last N keys set.
RecencyInvariant ==
    FillRun =>
        /\ ~panicked
        /\ LiveKeys = {hist[i].key : i \in (Len(hist) - size + 1)..Len(hist)}
        /\ \A k \in Keys : (GetResult(lru, k).err = "nil") <=> (k \in LiveKeys)

RecencyWitness ==
    /\ FillRun
    /\ size >= 2
    /\ ret.op = "Set"
    /\ ret.err = "nil"

\* C4: with capacity >= 1 no call ends in a nil dereference, Set returns
\* nil, and key-not-found comes only from Get or Delete.
NeverAborts ==
    size >= 1 =>
        /\ ~panicked
        /\ ret.err # "panic"
        /\ ret.op = "Set" => ret.err = "nil"
        /\ ret.err = "notfound" => ret.op \in {"Get", "Delete"}

\* C5: after Set on a key k present in a cache holding C >= 2 entries at
\* capacity C, the next Set of a new key does not evict k: it evicts one of
\* the other keys.
SetRefreshesRecency ==
    [][(/\ ret.op = "Set"
        /\ ret.hit
        /\ ret.err = "nil"
        /\ size >= 2
        /\ Cardinality(LiveKeys) = size
        /\ used = size
        /\ nops' = nops + 1
        /\ ret'.op = "Set"
        /\ ~ret'.hit)
       => (/\ ret.key \in LiveKeys'
           /\ ret'.key \in LiveKeys'
           /\ Cardinality(LiveKeys') = size
           /\ LiveKeys' \subseteq LiveKeys \cup {ret'.key})]_vars

\* C6: Set(k, v2) on a present key k returns nil, leaves the live keys and
\* the entry count unchanged, and Get(k) right after returns v2, no error.
OverwriteSemantics ==
    [][(/\ nops' = nops + 1
        /\ ret'.op = "Set"
        /\ ret'.key \in LiveKeys)
       => (/\ ret'.err = "nil"
           /\ LiveKeys' = LiveKeys
           /\ used' = used
           /\ GetResult(lru', ret'.key) = [val |-> ret'.value, err |-> "nil"]
           /\ ~LruGet(lru', ret'.key).panicked)]_vars

OverwriteWitness ==
    /\ ret.op = "Set"
    /\ ret.hit
    /\ ret.err = "nil"
    /\ Cardinality(LiveKeys) = size
    /\ Cardinality(LiveKeys) >= 2
    /\ GetResult(lru, ret.key).val = ret.value

\* ------------------------------------------------ claims on the TTL cache
Entries == DOMAIN data

\* The step is a call of Set by a caller.
SetStep == nops' = nops + 1 /\ ret'.op = "Set"

\* The step is a destroy goroutine running its Delete.
DestroyStep == BagCardinality(watchers') < BagCardinality(watchers)

\* C7: Set fails with cache-is-full only when the cache is at capacity and
\* the key is new; Set on a present key succeeds and overwrites the value,
\* with the entry count unchanged, even when the cache is full.
OverwriteAtCapacity ==
    [][SetStep =>
        /\ ret'.err = "full" =>
             (Cardinality(Entries) >= size /\ ret'.key \notin Entries)
        /\ ret'.key \in Entries =>
             /\ ret'.err = "nil"
             /\ SimpleGet(simple', ret'.key) = [val |-> ret'.value, err |-> "nil"]
             /\ Entries' = Entries
             /\ used' = used]_vars

\* C8: when the cache holds capacity-many entries, Set of a key not present
\* returns cache-is-full and changes nothing: same mapping, same used-count,
\* no watcher started.
CapacityRejection ==
    [][(SetStep /\ Cardinality(Entries) = size /\ ret'.key \notin Entries)
       => (/\ ret'.err = "full"
           /\ data' = data
           /\ used' = used
           /\ watchers' = watchers)]_vars

\* C9: with TTL > 0, right after a successful Set(k, v) Get(k) succeeds with
\* v; the expiry of an entry decrements the used-count; and after a
\* successful Set(k, v) the key k is eventually absent.
TTLExpiry ==
    /\ [](ttl > 0 /\ ret.op = "Set" /\ ret.err = "nil"
            => SimpleGet(simple, ret.key) = [val |-> ret.value, err |-> "nil"])
    /\ [][\A k \in SimpleKeys :
            (DestroyStep /\ k \in Entries /\ k \notin Entries')
                => used' = used - 1]_vars
    /\ \A k \in SimpleKeys :
         (ttl > 0 /\ ret.op = "Set" /\ ret.err = "nil" /\ ret.key = k)
            ~> (SimpleGet(simple, k).err = "notfound")

TTLExpiryWitness ==
    /\ ttl > 0
    /\ ret.op = "destroy"
    /\ ret.err = "nil"
    /\ ret.hit
    /\ now >= ttl
    /\ SimpleGet(simple, ret.key).err = "notfound"

\* C10: the expiry path never removes an entry before the time of the Set
\* that created it plus the TTL.
NoEarlyExpiry ==
    [][\A k \in SimpleKeys :
         (DestroyStep /\ k \in Entries /\ k \notin Entries' /\ k \in DOMAIN born)
            => now >= born[k] + ttl]_vars

\* C11: in every reachable state of the bounded cache the used-count is the
\* number of keys in the mapping, is not negative and does not exceed the
\* capacity (100 when the requested capacity was not positive).
CountingInvariant ==
    /\ 0 <= used
    /\ used = Cardinality(Entries)
    /\ used <= size

ClearStep == nops' = nops + 1 /\ ret'.op = "Clear"

SnapshotRoundTrip ==
    [][(ClearStep /\ file # Nil /\ ret'.err = "nil"
          /\ Cardinality(Entries) <= size) =>
         \A sz \in 1..MaxSize :
           sz >= Cardinality(Entries) =>
             LET c == NewCache([Size |-> sz, TTL |-> ttl, File |-> file], disk')
             IN  /\ c.data = data
                 /\ \A k \in Entries :
                      SimpleGet(c, k) = [val |-> data[k], err |-> "nil"]
                 /\ c.used = Cardinality(Entries)
                 /\ \A k \in SimpleKeys \ Entries, v \in SimpleValues :
                      SimpleSet(c, k, v).err = "nil" <=> c.used < sz]_vars

\* The store holds what construction has to discard: Load fails, the bytes
\* do not decode, or they decode to more entries than the capacity.
BadSnapshot ==
    /\ file # Nil
    /\ \/ disk = Absent
       \/ Unmarshal(disk, EmptyMap).err # "nil"
       \/ Cardinality(DOMAIN Unmarshal(disk, EmptyMap).data) > size

\* C14: a cache constructed on a bad snapshot starts empty: no key is
\* retrievable and the used-count is 0.
BadSnapshotDiscarded ==
    (ret.op = "new" /\ BadSnapshot) =>
        /\ used = 0
        /\ \A k \in SimpleKeys \cup (1..MaxSnap) :
             SimpleGet(simple, k).err = "notfound"

\* The nodes met from n by following next links, up to the first node met
\* twice, and whether the walk ran into such a node.
RECURSIVE Chain(_, _)
Chain(n, acc) ==
    IF n = Nil \/ \E i \in 1..Len(acc) : acc[i] = n
    THEN [nodes |-> acc, cyclic |-> n # Nil]
    ELSE Chain(heap[n].next, Append(acc, n))

IndexNodes == {cache[k] : k \in DOMAIN cache}

\* C18: after every call that returned, the nodes reachable from head form
\* an acyclic list that ends at tail, the prev links mirror the next links,
\* the nodes of the list are exactly the nodes of the hash index, and head
\* and tail are nil exactly when the index is empty.
StructuralInvariant ==
    panicked \/
    LET ch == Chain(head, <<>>)
        L  == ch.nodes
    IN  /\ ~ch.cyclic
        /\ tail = IF L = <<>> THEN Nil ELSE L[Len(L)]
        /\ \A i \in 1..Len(L) :
             heap[L[i]].prev = IF i = 1 THEN Nil ELSE L[i - 1]
        /\ {L[i] : i \in 1..Len(L)} = IndexNodes
        /\ head = Nil <=> cache = EmptyMap
        /\ tail = Nil <=> cache = EmptyMap

\* C19: on a cache of capacity 0 a Set inserts and at once evicts the only
\* node; the eviction completes and leaves head and tail nil, the index
\* empty and used-count 0.
EvictsOnlyEntry ==
    (size = 0 /\ ret.op = "Set") =>
        /\ ~panicked
        /\ head = Nil
        /\ tail = Nil
        /\ cache = EmptyMap
        /\ used = 0

\* C20: on a cache of capacity at least 1 the used counter is the number of
\* keys in the hash index and is never negative.
UsedAgreesWithIndex ==
    size >= 1 => (used = Cardinality(LiveKeys) /\ used >= 0)

AbsentKeyStep == nops' = nops + 1 /\ ret'.op \in {"Get", "Delete"}

\* C17: on both backends a Get or Delete of a key that is not present
\* returns key-not-found (Get with the zero value) and changes nothing: the
\* same keys and values and the same used-count, and for the LRU cache the
\* same head, tail and links.
AbsentKeyNoChange ==
    [][AbsentKeyStep =>
         IF impl = "lru"
         THEN ret'.key \notin DOMAIN cache =>
                /\ ret'.err = "notfound"
                /\ ret'.op = "Get" => ret'.val = ZeroValue
                /\ UNCHANGED <<size, used, head, tail, cache, heap>>
         ELSE ret'.key \notin DOMAIN data =>
                /\ ret'.err = "notfound"
                /\ ret'.op = "Get" => ret'.val = ZeroValue
                /\ UNCHANGED <<size, used, data>>]_vars

AbsentKeyWitness ==
    /\ impl = "lru"
    /\ ret.op = "Delete"
    /\ ret.err = "notfound"
    /\ cache # EmptyMap
    /\ used > 0

AllReturned == \A g \in Goroutines : pc[g] = "done"

ListLength == Len(Chain(head, <<>>).nodes)

\* C15: with more concurrent Set callers on distinct keys than the capacity
\* (and the Get callers of the concurrency test among them), once all calls
\* have returned exactly capacity-many keys are retrievable and the index
\* has as many keys as the list has nodes.
ConcurrencySafety ==
    (AllReturned /\ size >= 1 /\ Cardinality(Setters) > size) =>
        /\ Cardinality({k \in Keys : GetResult(lru, k).err = "nil"}) = size
        /\ ~Chain(head, <<>>).cyclic
        /\ Cardinality(LiveKeys) = ListLength

InCritical == {g \in Goroutines : pc[g] \in {"locked", "returning", "panicking"}}

\* C16: at most one call is inside the critical section, the mutex is held
\* exactly while a call is inside it (so every exit path has released it),
\* and no started call is lost: none unwinds by a panic instead of
\* returning, and while calls are outstanding some call can take a step.
LockDiscipline ==
    /\ Cardinality(InCritical) <= 1
    /\ \A g \in Goroutines : mx = g <=> g \in InCritical
    /\ \A g \in Goroutines : pc[g] # "panicked"
    /\ AllReturned \/ ENABLED NextLock

\* The cache after Set calls on the keys of ks, one after the other, with
\* nothing in between; a call that panics ends the run.
RECURSIVE SetAll(_, _)
SetAll(l, ks) ==
    IF ks = <<>> \/ l.panicked
    THEN l
    ELSE SetAll(LruSet(l, Head(ks), Min(Values)), Tail(ks))

\* The sequences of n pairwise distinct keys none of which is present.
FreshKeySeqs(n) ==
    {ks \in [1..n -> Keys \ LiveKeys] :
        \A i, j \in 1..n : i # j => ks[i] # ks[j]}

\* C21: from every state reached on a cache of capacity C >= 1, C further
\* Set calls on C distinct keys that are not present leave exactly those C
\* keys live.
NoStuckEntry ==
    (~panicked /\ size >= 1) =>
        \A ks \in FreshKeySeqs(size) :
            LET l == SetAll(lru, ks)
            IN  /\ ~l.panicked
                /\ DOMAIN l.cache = {ks[i] : i \in 1..size}

\* The destroy goroutines in flight for the key.
WatchersOf(k) == {w \in BagToSet(watchers) : w.key = k}

\* C22: on a cache with TTL > 0 (and a used-count that agrees with the
\* mapping, as after loading a well-formed snapshot) every entry present,
\* set or loaded from the store, has a destroy goroutine in flight for its
\* key, the only thing that removes it when no caller issues Delete or
\* Clear.
ExpiryCoversEveryEntry ==
    (ttl > 0 /\ used = Cardinality(Entries)) =>
        \A k \in Entries : WatchersOf(k) # {}

====
